---- MODULE Spec2Model ----
(***************************************************************************)
(* A model of src/app.py, the EAA Growers decision-support script.         *)
(*                                                                         *)
(* The script is a Streamlit page: the host runs it top to bottom once per *)
(* user event ("script pass"), with the values of the widgets as inputs,   *)
(* and again, at once, whenever a pass ends in st.rerun().  What survives  *)
(* between passes is st.session_state and the value the map component      *)
(* holds for its key.                                                      *)
(*                                                                         *)
(* Units.  TLC has 32-bit integers and no reals, so every quantity is a    *)
(* scaled integer:                                                         *)
(*   latitude, longitude      1/20000 degree, so that (lat + lon) * 10000  *)
(*                            is (lat + lon) / 2 and int() truncates       *)
(*   est_som, display_som,                                                 *)
(*   display_ph                tenths                                      *)
(*   drawn_area_ha             tenths of a hectare (the code rounds to 1   *)
(*                            decimal); a projected area is in hundredths  *)
(*   carbon credits per ha     hundredths                                  *)
(* Python's None is <<>> and a present value v is <<v>>.                   *)
(***************************************************************************)
EXTENDS Integers, Sequences, FiniteSets, TLC

VARIABLES
    session_state,  \* st.session_state: the twelve keys of `defaults`
    map_data,       \* what the map component holds: its key, last_clicked, all_drawings
    rerun,          \* TRUE while an st.rerun() of the last pass is pending
    toast,          \* the st.toast warning of the last pass ("none" if none)
    exception,      \* the exception that ended the last pass ("none" if none)
    call,           \* the last direct call of a pure function: name, arguments, result
    prev            \* the call before it

vars == <<session_state, map_data, rerun, toast, exception, call, prev>>

None == <<>>

Some(v) == <<v>>

Min2(a, b) == IF a <= b THEN a ELSE b

\* ---------------------------------------------------------------- bounds

\* how many drawings the map may hold at once
MaxDrawings == 2

\* how many times the survey may be restarted
MaxResets == 1

\* the largest farm size handed to the carbon model when it is called directly
MaxDirectSize == 100

\* ------------------------------------------------- the session's defaults

defaults ==
    [ step            |-> 1,
      clicked_lat     |-> None,
      clicked_lon     |-> None,
      est_som         |-> None,
      est_depth       |-> None,
      display_ph      |-> 65,
      display_som     |-> 0,
      saved_farm_size |-> 100,
      selected_crop   |-> "Sugarcane",
      drawn_area_ha   |-> None,
      selection_mode  |-> "point",
      map_key         |-> 0 ]

\* reset_survey without line 69
reset_survey_same_key(s) == [defaults EXCEPT !.map_key = s.map_key]

reset_survey(s) == [defaults EXCEPT !.map_key = s.map_key + 1]

\* ------------------------------------------------------- the Region

\* eaa_poly, the union of the shapefile's polygons: here the interior of a
\* box between 26.3 N and 26.9 N, 81.0 W and 80.3 W
eaa_poly == [lat_lo |-> 526000, lat_hi |-> 538000, lon_lo |-> -1620000, lon_hi |-> -1606000]

\* eaa_poly.contains(Point(lon, lat)): interior points only
contains(poly, lon, lat) ==
    /\ poly.lat_lo < lat /\ lat < poly.lat_hi
    /\ poly.lon_lo < lon /\ lon < poly.lon_hi

\* ------------------------------------------------------- the crop table

crop_data ==
    << [Crop |-> "Sugarcane",    Credits |-> 675],
       [Crop |-> "Flooded Rice", Credits |-> 912],
       [Crop |-> "Sweet Corn",   Credits |-> 489],
       [Crop |-> "Lettuce",      Credits |-> 321],
       [Crop |-> "Turf Grass",   Credits |-> 743],
       [Crop |-> "Legume Mix",   Credits |-> 538],
       [Crop |-> "Sunn Hemp",    Credits |-> 827],
       [Crop |-> "Cowpea",       Credits |-> 612] >>

\* ------------------------------------------------------ the carbon model

\* The result is in units of 1/1,800,000 ton: base_credits is in hundredths,
\* depth_factor in thirtieths (min(depth/30, 1) * 30 = min(depth, 30)) and
\* som_factor in six-hundredths (som_pct is in tenths).
calculate_carbon_impact_floordiv(base_credits, farm_size, depth_cm, som_pct) ==
    LET depth_factor == IF depth_cm < 30 THEN 0 ELSE 30
        som_factor   == Min2(som_pct, 600)
    IN  base_credits * farm_size * depth_factor * som_factor

calculate_carbon_impact(base_credits, farm_size, depth_cm, som_pct) ==
    LET depth_factor == Min2(depth_cm, 30)
        som_factor   == Min2(som_pct, 600)
    IN  base_credits * farm_size * depth_factor * som_factor

\* ------------------------------------------------------ the soil estimator

\* Python's int(): truncation toward zero of n / d, d > 0
TruncDiv(n, d) == IF n >= 0 THEN n \div d ELSE -((-n) \div d)

\* Python's % taken for C's, whose result takes the sign of the dividend
c_remainder(v) == v

\* Python's v % (2**31) for |v| < 2**31: the result takes the sign of the
\* modulus.  2**31 itself is not a 32-bit integer, hence 2147483647 + 1.
PyMod2p31(v) == IF v >= 0 THEN v ELSE (v + 2147483647) + 1

\* seed=int((lat + lon) * 10000) % (2**31)
soil_seed(lat, lon) == PyMod2p31(TruncDiv(lat + lon, 2))

\* np.random.default_rng(seed): the generator is numpy's; what the model keeps
\* of it is that its stream is a function of the seed.  The n-th draw:
rng_draw(seed, n) ==
    LET step(x) == (x * 75 + 74) % 65537
        x1 == step(seed % 65537)
        x2 == step(x1)
        x3 == step(x2)
    IN  CASE n = 1 -> x1 [] n = 2 -> x2 [] OTHER -> x3

\* rng.choice(['shallow', 'adequate', 'deep'], p=[0.4, 0.5, 0.1]) of the
\* generator seeded with seed, line 159
depth_choice(seed) ==
    LET p == rng_draw(seed, 2) % 10
    IN  IF p < 4 THEN "shallow" ELSE IF p < 9 THEN "adequate" ELSE "deep"

\* the arguments <<low, high>> of rng.integers(low, high), lines 161-166:
\* low is included, high is not
depth_bounds(choice) ==
    IF choice = "shallow" THEN <<15, 30>>
    ELSE IF choice = "adequate" THEN <<30, 101>>
    ELSE <<101, 151>>

\* (som, depth): som in tenths, 250..850; depth in cm
predict_soil_metrics(lat, lon) ==
    LET seed == soil_seed(lat, lon)
        som  == 250 + (rng_draw(seed, 1) % 601)
        r    == rng_draw(seed, 3)
        b    == depth_bounds(depth_choice(seed))
        depth == b[1] + (r % (b[2] - b[1]))
    IN  <<som, depth>>

\* ------------------------------------------------ what the map can send

\* A clicked point, as map_data["last_clicked"] carries it
LatLng(lat, lng) == [lat |-> lat, lng |-> lng]

\* The points a user clicks: two inside the Region on one latitude, one
\* outside.  (Other latitudes inside the Region come from the drawings.)
ClickPoints ==
    { LatLng(530001, -1610000), LatLng(530001, -1612000), LatLng(500000, -1610000) }

\* The coordinate ring of a rectangle drawn with the rectangle tool, as
\* GeoJSON pairs <<lng, lat>>, closed
RectRing(lon_lo, lat_lo, lon_hi, lat_hi) ==
    << <<lon_lo, lat_lo>>, <<lon_hi, lat_lo>>, <<lon_hi, lat_hi>>,
       <<lon_lo, lat_hi>>, <<lon_lo, lat_lo>> >>

\* A drawing: its GeoJSON geometry and `area`, the area (in hundredths of a
\* hectare) the projection to EPSG:32617 gives the shape.
Feature(type, ring, area) ==
    [geometry |-> [type |-> type, coordinates |-> ring], area |-> area]

\* a field of 0.44 ha inside the Region
FieldSmall == Feature("Polygon", RectRing(-1611012, 531000, -1611000, 531012), 44)

\* a tract of 600000.37 ha whose centroid is inside the Region
FieldHuge == Feature("Polygon", RectRing(-1622000, 524000, -1606000, 540000), 60000037)

\* a field whose centroid is outside the Region
FieldOutside == Feature("Polygon", RectRing(-1611000, 500000, -1610000, 501000), 1237)

\* a Polygon whose ring has two positions: shape() raises on it
Malformed == Feature("Polygon", << <<-1611000, 531000>>, <<-1610000, 531000>> >>, 0)

\* a geometry of a type the handler does not recognise
Polyline == Feature("LineString", << <<-1611000, 531000>>, <<-1610000, 531000>> >>, 0)

Drawings == {FieldSmall, FieldHuge, FieldOutside, Malformed, Polyline}

\* the value of a freshly mounted map component
EmptyMapData(key) == [key |-> key, last_clicked |-> None, all_drawings |-> <<>>]

\* st_folium(m, key=f"map_{map_key}"): the component's value under that key; a
\* key not seen before mounts a new component
st_folium(md, key) == IF md.key = key THEN md ELSE EmptyMapData(key)

\* shape(geometry) raises on a linear ring of fewer than 4 positions
shape_raises(geometry) == Len(geometry.coordinates) < 4

\* drawn_shape.centroid of a rectangle: the mean of its four corners
centroid(geometry) ==
    LET c == geometry.coordinates
    IN  [x |-> (c[1][1] + c[2][1] + c[3][1] + c[4][1]) \div 4,
         y |-> (c[1][2] + c[2][2] + c[3][2] + c[4][2]) \div 4]

\* round(area_ha, 1): hundredths to tenths, ties to even
round1(h) ==
    LET q == h \div 10
        r == h % 10
    IN  IF r < 5 THEN q
        ELSE IF r > 5 THEN q + 1
        ELSE IF q % 2 = 0 THEN q ELSE q + 1

\* -------------------------------------------------- the map handlers

\* accept_polygon without line 215
accept_polygon_keep_step(s, drawing, lat, lon) ==
    [s EXCEPT !.drawn_area_ha  = Some(round1(drawing.area)),
              !.clicked_lat    = Some(lat),
              !.clicked_lon    = Some(lon),
              !.selection_mode = "polygon",
              !.est_som        = Some(predict_soil_metrics(lat, lon)[1]),
              !.est_depth      = Some(predict_soil_metrics(lat, lon)[2])]

\* lines 210-215: a drawn polygon is accepted
accept_polygon(s, drawing, lat, lon) ==
    [s EXCEPT !.drawn_area_ha  = Some(round1(drawing.area)),
              !.clicked_lat    = Some(lat),
              !.clicked_lon    = Some(lon),
              !.selection_mode = "polygon",
              !.est_som        = Some(predict_soil_metrics(lat, lon)[1]),
              !.est_depth      = Some(predict_soil_metrics(lat, lon)[2]),
              !.step           = 2]

\* accept_point without lines 228-229
accept_point_stale_soil(s, lat, lon) ==
    [s EXCEPT !.clicked_lat    = Some(lat),
              !.clicked_lon    = Some(lon),
              !.drawn_area_ha  = None,
              !.selection_mode = "point",
              !.step           = 2]

\* accept_point without the assignment drawn_area_ha = None of line 228
accept_point_keeps_area(s, lat, lon) ==
    [s EXCEPT !.clicked_lat    = Some(lat),
              !.clicked_lon    = Some(lon),
              !.selection_mode = "point",
              !.est_som        = Some(predict_soil_metrics(lat, lon)[1]),
              !.est_depth      = Some(predict_soil_metrics(lat, lon)[2]),
              !.step           = 2]

\* lines 226-230: a clicked point is accepted
accept_point(s, lat, lon) ==
    [s EXCEPT !.clicked_lat    = Some(lat),
              !.clicked_lon    = Some(lon),
              !.drawn_area_ha  = None,
              !.selection_mode = "point",
              !.est_som        = Some(predict_soil_metrics(lat, lon)[1]),
              !.est_depth      = Some(predict_soil_metrics(lat, lon)[2]),
              !.step           = 2]

\* polygon_handler without the test of line 207
polygon_handler_no_region(s, md) ==
    IF md.all_drawings = <<>> THEN [s |-> s, drawing_processed |-> FALSE, toast |-> "none"]
    ELSE LET last_drawing == md.all_drawings[Len(md.all_drawings)]
             ok == /\ last_drawing.geometry.type \in {"Polygon", "MultiPolygon"}
                   /\ ~shape_raises(last_drawing.geometry)
             c  == centroid(last_drawing.geometry)
         IN  IF ok /\ s.clicked_lat # Some(c.y)
             THEN [s |-> accept_polygon(s, last_drawing, c.y, c.x),
                   drawing_processed |-> FALSE, toast |-> "none"]
             ELSE [s |-> s, drawing_processed |-> ok, toast |-> "none"]

\* Lines 199-220.  st.rerun() raises Streamlit's RerunException, which is a
\* BaseException: raised at line 216, inside the try, it is caught by the bare
\* `except: pass` of line 220 like the errors of shape(), so line 219 is
\* skipped, drawing_processed stays False and the pass goes on.
polygon_handler(s, md) ==
    LET quiet(dp) == [s |-> s, drawing_processed |-> dp, toast |-> "none"]
    IN  IF md.all_drawings = <<>> THEN quiet(FALSE)
        ELSE LET last_drawing == md.all_drawings[Len(md.all_drawings)]
             IN  IF last_drawing.geometry.type \notin {"Polygon", "MultiPolygon"}
                 THEN quiet(FALSE)
                 ELSE IF shape_raises(last_drawing.geometry) THEN quiet(FALSE)
                 ELSE LET c   == centroid(last_drawing.geometry)
                          lon == c.x
                          lat == c.y
                      IN  IF s.clicked_lat # Some(lat)
                          THEN IF contains(eaa_poly, lon, lat)
                               THEN [s |-> accept_polygon(s, last_drawing, lat, lon),
                                     drawing_processed |-> FALSE, toast |-> "none"]
                               ELSE [s |-> s, drawing_processed |-> TRUE,
                                     toast |-> "centroid outside"]
                          ELSE quiet(TRUE)

\* point_handler without the test of line 224
point_handler_unchecked(s, md) ==
    IF md.last_clicked = None THEN [s |-> s, rerun |-> FALSE, toast |-> "none"]
    ELSE LET lat == md.last_clicked[1].lat
             lon == md.last_clicked[1].lng
         IN  IF s.clicked_lat # Some(lat)
             THEN [s |-> accept_point(s, lat, lon), rerun |-> TRUE, toast |-> "none"]
             ELSE [s |-> s, rerun |-> FALSE, toast |-> "none"]

\* Lines 222-233, entered when drawing_processed is False.  Here st.rerun()
\* is outside any try and ends the pass.
point_handler(s, md) ==
    IF md.last_clicked = None THEN [s |-> s, rerun |-> FALSE, toast |-> "none"]
    ELSE LET lat == md.last_clicked[1].lat
             lon == md.last_clicked[1].lng
         IN  IF contains(eaa_poly, lon, lat)
             THEN IF s.clicked_lat # Some(lat)
                  THEN [s |-> accept_point(s, lat, lon), rerun |-> TRUE, toast |-> "none"]
                  ELSE [s |-> s, rerun |-> FALSE, toast |-> "none"]
             ELSE [s |-> s, rerun |-> FALSE, toast |-> "out of bounds"]

\* the warnings of one pass: the point handler's is the later one
later_toast(pt, earlier) ==
    [pt EXCEPT !.toast = IF pt.toast # "none" THEN pt.toast ELSE earlier]

\* line 222 on the polygon handler's outcome ph
after_polygon(ph, md) ==
    IF ph.drawing_processed
    THEN [s |-> ph.s, rerun |-> FALSE, toast |-> ph.toast]
    ELSE later_toast(point_handler(ph.s, md), ph.toast)

\* Lines 199-233: the left column after the map is drawn
map_handlers(s, md) == after_polygon(polygon_handler(s, md), md)

\* ------------------------------------------------ the S2 widgets' labels

\* A label is the sequence of its characters, so that Python's `k in label`
\* is a search for a contiguous subsequence.  The dash stands for the en dash.
ph_options ==
    << <<"A","c","i","d","i","c"," ","(","B","e","l","o","w"," ","5",".","5",")">>,
       <<"S","l","i","g","h","t","l","y"," ","A","c","i","d","i","c"," ","(","5",".","5","-","6",".","5",")">>,
       <<"N","e","u","t","r","a","l"," ","(","6",".","5","-","7",".","5",")">>,
       <<"A","l","k","a","l","i","n","e"," ","(","A","b","o","v","e"," ","7",".","5",")">> >>

som_options ==
    << <<"L","o","w"," ","(","B","e","l","o","w"," ","4","0","%",")">>,
       <<"M","o","d","e","r","a","t","e"," ","(","4","0","%","-","7","0","%",")">>,
       <<"H","i","g","h"," ","(","A","b","o","v","e"," ","7","0","%",")">> >>

\* ph_map and som_map, in the order of the dict literals
ph_map ==
    << [k |-> <<"B","e","l","o","w">>, v |-> 50],
       [k |-> <<"5",".","5">>,         v |-> 60],
       [k |-> <<"6",".","5">>,         v |-> 70],
       [k |-> <<"A","b","o","v","e">>, v |-> 80] >>

som_map ==
    << [k |-> <<"L","o","w">>,                     v |-> 300],
       [k |-> <<"M","o","d","e","r","a","t","e">>, v |-> 550],
       [k |-> <<"H","i","g","h">>,                 v |-> 775] >>

\* k in label
IsSubstr(k, label) ==
    \E i \in 1..(Len(label) - Len(k) + 1) : SubSeq(label, i, i + Len(k) - 1) = k

\* first_key taking the last key that occurs instead of the first
first_key_last(map, choice, default) ==
    LET hits == {i \in 1..Len(map) : \E n \in 1..Len(choice) :
                     n + Len(map[i].k) - 1 <= Len(choice)
                     /\ SubSeq(choice, n, n + Len(map[i].k) - 1) = map[i].k}
    IN  IF hits = {} THEN default
        ELSE map[CHOOSE i \in hits : \A j \in hits : i >= j].k

\* next((k for k in map if k in choice), default): the first key, in the
\* dict's order, that occurs in the choice
first_key(map, choice, default) ==
    LET hits == {i \in 1..Len(map) : IsSubstr(map[i].k, choice)}
    IN  IF hits = {} THEN default
        ELSE map[CHOOSE i \in hits : \A j \in hits : i <= j].k

\* map[key]
lookup(map, key) == map[CHOOSE i \in 1..Len(map) : map[i].k = key].v

\* go_to_step3 whose branch without lab data leaves display_som as it is
go_to_step3_keeps_som(s, has_test, ph_choice, som_choice) ==
    IF has_test
    THEN [s EXCEPT !.display_ph  = lookup(ph_map, first_key(ph_map, ph_choice, <<"6",".","5">>)),
                   !.display_som = lookup(som_map, first_key(som_map, som_choice,
                                              <<"M","o","d","e","r","a","t","e">>)),
                   !.step        = 3]
    ELSE [s EXCEPT !.display_ph = 65, !.step = 3]

\* go_to_step3, lines 257-266; has_test is TRUE for "Yes, I will input my data"
go_to_step3(s, has_test, ph_choice, som_choice) ==
    IF has_test
    THEN LET pk == first_key(ph_map, ph_choice, <<"6",".","5">>)
             sk == first_key(som_map, som_choice, <<"M","o","d","e","r","a","t","e">>)
         IN  [s EXCEPT !.display_ph  = lookup(ph_map, pk),
                       !.display_som = lookup(som_map, sk),
                       !.step        = 3]
    ELSE [s EXCEPT !.display_ph  = 65,
                   !.display_som = s.est_som[1],
                   !.step        = 3]

\* ------------------------------------------------ the S4 widgets

\* bool(drawn_area_ha): None and 0.0 are false
truthy(area) == area # None /\ area # Some(0)

\* line 304; int() of an area in tenths is the whole hectares
default_size(s) ==
    Min2(IF truthy(s.drawn_area_ha) THEN s.drawn_area_ha[1] \div 10
         ELSE s.saved_farm_size,
         500000)

\* st.number_input(min_value=1, max_value=500000, value=default_size) raises
\* when its value is outside [min_value, max_value]
number_input_raises(value) == value < 1 \/ value > 500000

\* the options of the shortlist selectbox, line 310
shortlist == {"Flooded Rice", "Sweet Corn", "Sunn Hemp", "Cowpea"}

\* crop_data["Crop"].tolist(), line 312
crop_names == {crop_data[i].Crop : i \in 1..Len(crop_data)}

\* the forward_fn storing crop_decision, the radio's value, as the crop
commit_plan_decision(s, selected_crop, input_size) ==
    [s EXCEPT !.selected_crop   = "I have a crop in mind",
              !.saved_farm_size = input_size,
              !.step            = 5]

\* the forward_fn of line 320
commit_plan(s, selected_crop, input_size) ==
    [s EXCEPT !.selected_crop   = selected_crop,
              !.saved_farm_size = input_size,
              !.step            = 5]

\* ------------------------------------------------ the S5 results

\* crop_data[crop_data["Crop"] == crop], line 324: the rows of that crop
crop_rows(crop) == SelectSeq(crop_data, LAMBDA row : row.Crop = crop)

\* .iloc[0] raises IndexError on a frame without rows
iloc0_raises(rows) == Len(rows) = 0

\* the lists of lines 118-142, each protocol named by its bold heading
recs ==
    << [k |-> "Sugarcane",
        v |-> <<"Rotate with Flooded Rice", "Use Fallow Periods",
                "Limit Ratoon Cycles to 2", "Mulch with Sugarcane Residue">>],
       [k |-> "Flooded Rice",
        v |-> <<"Rotate with Sugarcane", "Limit Sugarcane Ratoon Cycles to 2",
                "Mulch with Sugarcane Residue">>],
       [k |-> "Sweet Corn",
        v |-> <<"Rotate with Legume Cover Crops", "Use Minimum Tillage",
                "Incorporate Crop Residue">>],
       [k |-> "Lettuce",
        v |-> <<"Rotate with Flooded Rice", "Use Cover Crops",
                "Drip Irrigation", "Minimize Tillage">>] >>

cover_crops == {"Legume Mix", "Sunn Hemp", "Cowpea"}

\* lines 117-152; recs.get(crop, default) is the list of the key, or the
\* default list
get_crop_recommendations(crop) ==
    IF crop \in cover_crops
    THEN <<"Use Before Sugarcane", "Incorporate Before Flowering",
           "Manage Water Table", "Increase Organic Matter">>
    ELSE IF \E i \in 1..Len(recs) : recs[i].k = crop
    THEN recs[CHOOSE i \in 1..Len(recs) : recs[i].k = crop].v
    ELSE <<"Manage Water Table">>

\* A quotient a / b / 4.6 kept exact: num / den, in units of 1/180,000 car
\* when a is in units of 1/1,800,000 ton; b = 0 raises ZeroDivisionError
per_car(a, b) ==
    IF b = 0
    THEN [exception |-> "ZeroDivisionError", num |-> 0, den |-> 1]
    ELSE [exception |-> "none", num |-> a, den |-> b * 46]

\* line 335 without its test of size
cars_unguarded(adj_credits, size) == per_car(adj_credits, size)

\* line 335: (adj_credits / size / 4.6) if size > 0 else 0
cars(adj_credits, size) ==
    IF size > 0 THEN per_car(adj_credits, size)
    ELSE [exception |-> "none", num |-> 0, den |-> 1]

\* line 324, for a crop that has a row
adj_credits(s) ==
    calculate_carbon_impact(crop_rows(s.selected_crop)[1].Credits,
                            s.saved_farm_size, s.est_depth[1], s.display_som)

\* lines 323-335: the figures of the results page, or the exception raised on
\* the way to them
results(s) ==
    IF iloc0_raises(crop_rows(s.selected_crop))
    THEN [exception |-> "IndexError"]
    ELSE [exception   |-> cars(adj_credits(s), s.saved_farm_size).exception,
          adj_credits |-> adj_credits(s),
          protocols   |-> get_crop_recommendations(s.selected_crop),
          cars        |-> cars(adj_credits(s), s.saved_farm_size)]

\* ------------------------------------------------ the S3 diagnostics

\* lines 276-278; som in tenths of a percent
som_label(som) ==
    IF som < 400 THEN "Low Organic Matter"
    ELSE IF 400 <= som /\ som <= 700 THEN "Moderate Organic Matter"
    ELSE "Good Organic Matter"

\* lines 280-284; ph in tenths
ph_label(ph) ==
    IF ph < 55 THEN "Extremely Low"
    ELSE IF 55 <= ph /\ ph < 65 THEN "Low pH"
    ELSE IF 65 <= ph /\ ph <= 75 THEN "Good pH"
    ELSE IF 75 < ph /\ ph <= 85 THEN "High pH"
    ELSE "Extremely High"

\* depth_label with the first band closed at 30
depth_label_upto30(depth) ==
    IF depth <= 30 THEN "Very Low Depth"
    ELSE IF depth <= 100 THEN "Adequate Depth"
    ELSE "Very High Depth"

\* lines 286-288; depth in cm
depth_label(depth) ==
    IF depth < 30 THEN "Very Low Depth"
    ELSE IF 30 <= depth /\ depth <= 100 THEN "Adequate Depth"
    ELSE "Very High Depth"

\* the three labels of the metrics, lines 290-293
diagnostics(som, ph, depth) ==
    [som_label |-> som_label(som), ph_label |-> ph_label(ph), depth_label |-> depth_label(depth)]

\* A value the step's page needs is None: the f-string `{clicked_lat:.4f}` of
\* lines 245 and 327, the comparisons of lines 276-286 and the division of
\* line 113 raise TypeError on None
missing_value(s) ==
    CASE s.step = 2 -> s.selection_mode # "polygon" /\ s.clicked_lat = None
      [] s.step = 3 -> s.est_depth = None
      [] s.step = 5 -> \/ s.est_depth = None
                       \/ s.selection_mode # "polygon" /\ s.clicked_lat = None
      [] OTHER -> FALSE

\* ------------------------------------------------ the right column

\* What the user did to start a pass: the button pressed, if any, and the
\* values of the widgets of the current step
NoButton ==
    [name |-> "none", has_test |-> FALSE, ph_choice |-> <<>>, som_choice |-> <<>>,
     input_size |-> 0, selected_crop |-> ""]

Pressed(name) == [NoButton EXCEPT !.name = name]

\* navigation_buttons whose back button runs forward_fn before it steps back
navigation_buttons_back_commits(s, button, back_step, forward) ==
    IF button.name = "back"
    THEN [s |-> [forward EXCEPT !.step = back_step], rerun |-> TRUE, exception |-> "none"]
    ELSE IF button.name = "forward"
    THEN [s |-> forward, rerun |-> TRUE, exception |-> "none"]
    ELSE [s |-> s, rerun |-> FALSE, exception |-> "none"]

\* navigation_buttons, lines 71-80: `forward` is the session after forward_fn
navigation_buttons(s, button, back_step, forward) ==
    IF button.name = "back"
    THEN [s |-> [s EXCEPT !.step = back_step], rerun |-> TRUE, exception |-> "none"]
    ELSE IF button.name = "forward"
    THEN [s |-> forward, rerun |-> TRUE, exception |-> "none"]
    ELSE [s |-> s, rerun |-> FALSE, exception |-> "none"]

\* lines 236-338
right_column(s, button) ==
    IF s.step \in {2, 3} /\ missing_value(s)
    THEN [s |-> s, rerun |-> FALSE, exception |-> "TypeError"]
    ELSE CASE s.step = 1 -> [s |-> s, rerun |-> FALSE, exception |-> "none"]
           [] s.step = 2 ->
                 navigation_buttons(s, button, 1,
                     go_to_step3(s, button.has_test, button.ph_choice, button.som_choice))
           [] s.step = 3 ->
                 navigation_buttons(s, button, 2, [s EXCEPT !.step = 4])
           [] s.step = 4 ->
                 IF number_input_raises(default_size(s))
                 THEN [s |-> s, rerun |-> FALSE, exception |-> "StreamlitAPIException"]
                 ELSE navigation_buttons(s, button, 3,
                          commit_plan(s, button.selected_crop, button.input_size))
           [] OTHER ->
                 IF iloc0_raises(crop_rows(s.selected_crop))
                 THEN [s |-> s, rerun |-> FALSE, exception |-> "IndexError"]
                 ELSE IF missing_value(s)
                 THEN [s |-> s, rerun |-> FALSE, exception |-> "TypeError"]
                 ELSE IF button.name = "restart"
                 THEN [s |-> reset_survey(s), rerun |-> TRUE, exception |-> "none"]
                 ELSE [s |-> s, rerun |-> FALSE, exception |-> "none"]

\* ------------------------------------------------ one script pass

\* The whole script, lines 47-338, run on the map component's value md with
\* `button` pressed: the left column, then, unless it ended the pass with
\* st.rerun(), the right column.
after_map(mh, button) ==
    IF mh.rerun
    THEN [s |-> mh.s, rerun |-> TRUE, exception |-> "none"]
    ELSE right_column(mh.s, button)

\* the outcome of a pass whose left column ended in mh
finish(mh, button) == <<mh.toast, after_map(mh, button)>>

script(s, md, button) == finish(map_handlers(s, md), button)

\* what a pass leaves behind: out is <<toast, [s, rerun, exception]>>
Leaves(md, out) ==
    /\ map_data' = md
    /\ session_state' = out[2].s
    /\ rerun' = out[2].rerun
    /\ toast' = out[1]
    /\ exception' = out[2].exception
    /\ UNCHANGED <<call, prev>>

Mounted(md_in) == st_folium(md_in, session_state.map_key)

Pass(md_in, button) == Leaves(Mounted(md_in), script(session_state, Mounted(md_in), button))

\* the buttons of the current step are on the page
ButtonsShown(n) == ~rerun /\ session_state.step = n /\ exception = "none"

\* ------------------------------------------------ the user's events

\* What is entered at S4, as <<farm size, crop>>: the size offered with a crop
\* of the full list only, or the least size with a crop of the shortlist
PlanInputs(s) == {<<default_size(s), "Lettuce">>, <<1, "Sunn Hemp">>}

\* a click on the map at p
ClickMap(p) ==
    /\ ~rerun
    /\ map_data.last_clicked # Some(p)
    /\ Pass([map_data EXCEPT !.last_clicked = Some(p)], NoButton)

\* a shape d finished with the draw tool
DrawShape(d) ==
    /\ ~rerun
    /\ Len(map_data.all_drawings) < MaxDrawings
    /\ Pass([map_data EXCEPT !.all_drawings = Append(@, d)], NoButton)

\* the back button, with whatever the widgets of the step hold
Back ==
    /\ \E n \in {2, 3, 4} : ButtonsShown(n)
    /\ \E plan \in PlanInputs(session_state) :
           Pass(map_data, [Pressed("back") EXCEPT !.input_size = plan[1],
                                                 !.selected_crop = plan[2]])

Forward2(has_test, ph_choice, som_choice) ==
    /\ ButtonsShown(2)
    /\ Pass(map_data, [Pressed("forward") EXCEPT !.has_test = has_test,
                           !.ph_choice = ph_choice, !.som_choice = som_choice])

Forward3 ==
    /\ ButtonsShown(3)
    /\ Pass(map_data, Pressed("forward"))

Forward4(input_size, selected_crop) ==
    /\ ButtonsShown(4)
    /\ Pass(map_data, [Pressed("forward") EXCEPT !.input_size = input_size,
                           !.selected_crop = selected_crop])

Restart ==
    /\ ButtonsShown(5)
    /\ session_state.map_key < MaxResets
    /\ Pass(map_data, Pressed("restart"))

\* the pass that st.rerun() asked for
Rerun ==
    /\ rerun
    /\ Pass(map_data, NoButton)

\* the S2 choices made with lab data, as indices into ph_options and
\* som_options: every option of either selectbox occurs
LabChoices == {<<1, 1>>, <<2, 2>>, <<3, 3>>, <<4, 2>>}

NoCall == [fn |-> "none", args |-> <<>>, ret |-> 0]

Init ==
    /\ session_state = defaults
    /\ map_data = EmptyMapData(0)
    /\ rerun = FALSE
    /\ toast = "none"
    /\ exception = "none"
    /\ call = NoCall
    /\ prev = NoCall

Next ==
    \/ \E p \in ClickPoints : ClickMap(p)
    \/ \E d \in Drawings : DrawShape(d)
    \/ Back
    \/ \E c \in LabChoices : Forward2(TRUE, ph_options[c[1]], som_options[c[2]])
    \/ Forward2(FALSE, <<>>, <<>>)
    \/ Forward3
    \/ \E plan \in PlanInputs(session_state) : Forward4(plan[1], plan[2])
    \/ Restart
    \/ Rerun

Spec == Init /\ [][Next]_vars

\* ------------------------------------------------ the carbon model, called directly

\* the arguments the carbon model is called with
CarbonBases == {0, 321, 912}

CarbonSizes == {0, 1, MaxDirectSize}

CarbonDepths == {15, 29, 30, 150}

CarbonSoms == {250, 599, 600, 850}

CallCarbon(base, size, depth, som) ==
    /\ prev' = call
    /\ call' = [fn   |-> "calculate_carbon_impact",
                args |-> [base |-> base, size |-> size, depth |-> depth, som |-> som],
                ret  |-> calculate_carbon_impact(base, size, depth, som)]
    /\ UNCHANGED <<session_state, map_data, rerun, toast, exception>>

NextCarbon ==
    \E base \in CarbonBases, size \in CarbonSizes, depth \in CarbonDepths, som \in CarbonSoms :
        CallCarbon(base, size, depth, som)

SpecCarbon == Init /\ [][NextCarbon]_vars

\* ------------------------------------------------ go_to_step3, called directly

\* sessions at S2: a point of the Region has just been accepted
SessionsAtS2 ==
    {accept_point(defaults, p.lat, p.lng) : p \in {q \in ClickPoints : contains(eaa_poly, q.lng, q.lat)}}

\* labels neither selectbox offers: the empty string, a label without its
\* range, a key in another case, a bare number
OtherLabels ==
    { <<>>,
      <<"N","e","u","t","r","a","l">>,
      <<"b","e","l","o","w">>,
      <<"l","o","w">>,
      <<"7",".","0">> }

PhLabels == {ph_options[i] : i \in 1..Len(ph_options)} \cup OtherLabels

SomLabels == {som_options[i] : i \in 1..Len(som_options)} \cup OtherLabels

CallGoToStep3(s, ph_choice, som_choice) ==
    /\ prev' = call
    /\ call' = [fn   |-> "go_to_step3",
                args |-> [s |-> s, ph_choice |-> ph_choice, som_choice |-> som_choice],
                ret  |-> go_to_step3(s, TRUE, ph_choice, som_choice)]
    /\ UNCHANGED <<session_state, map_data, rerun, toast, exception>>

NextResolve ==
    \E s \in SessionsAtS2, ph_choice \in PhLabels, som_choice \in SomLabels :
        CallGoToStep3(s, ph_choice, som_choice)

SpecResolve == Init /\ [][NextResolve]_vars

\* ------------------------------------------------ the results page, shown directly

\* farm sizes in the session when S5 is shown
ResultSizes == {0, 1, MaxDirectSize}

\* crop names in the session when S5 is shown: the rows of the table, and
\* names it has no row for
ResultCrops == crop_names \cup {"Tomato", ""}

\* sessions at S5: the estimate kept at S2, then a plan committed at S4
SessionsAtS5 ==
    {commit_plan(go_to_step3(s, FALSE, <<>>, <<>>), crop, size) :
         s \in SessionsAtS2, crop \in ResultCrops, size \in ResultSizes}

ShowResults(s) ==
    /\ prev' = call
    /\ call' = [fn |-> "results", args |-> s, ret |-> results(s)]
    /\ UNCHANGED <<session_state, map_data, rerun, toast, exception>>

NextResults == \E s \in SessionsAtS5 : ShowResults(s)

SpecResults == Init /\ [][NextResults]_vars

\* ------------------------------------------------ the soil estimator, called directly

\* latitudes and longitudes in 1/20000 degree, of both signs, the Region's among them
EstimatorLats == {-530001, 0, 526001, 530001, 531006, 537999}

EstimatorLons == {-1619999, -1612000, -1610000, -1606001, 0, 530001, 1610000}

CallEstimator(lat, lon) ==
    /\ prev' = call
    /\ call' = [fn   |-> "predict_soil_metrics",
                args |-> [lat |-> lat, lon |-> lon],
                ret  |-> [seed         |-> soil_seed(lat, lon),
                          depth_choice |-> depth_choice(soil_seed(lat, lon)),
                          som          |-> predict_soil_metrics(lat, lon)[1],
                          depth        |-> predict_soil_metrics(lat, lon)[2]]]
    /\ UNCHANGED <<session_state, map_data, rerun, toast, exception>>

NextEstimator == \E lat \in EstimatorLats, lon \in EstimatorLons : CallEstimator(lat, lon)

SpecEstimator == Init /\ [][NextEstimator]_vars

\* ------------------------------------------------ the S3 diagnostics, shown directly

\* organic matter in tenths of a percent, on both sides of 40 and of 70
DiagnosticSoms == {0, 250, 300, 399, 400, 550, 700, 701, 775, 850}

\* pH in tenths, on both sides of 5.5, 6.5, 7.5 and 8.5
DiagnosticPhs == {50, 54, 55, 60, 64, 65, 70, 75, 76, 80, 85, 86, 90}

\* places whose estimates are of all three depth categories
DiagnosticPlaces ==
    { LatLng(530001, -1612000), LatLng(537999, 0), LatLng(530001, -1610000),
      LatLng(531006, -1610000), LatLng(530001, -1619999), LatLng(526001, 1610000) }

\* the diagnostics of display_som = som, display_ph = ph and the depth
\* estimated at (lat, lon)
ShowDiagnostics(som, ph, lat, lon) ==
    /\ call' = [fn   |-> "diagnostics",
                args |-> [som |-> som, ph |-> ph,
                          depth |-> predict_soil_metrics(lat, lon)[2],
                          depth_choice |-> depth_choice(soil_seed(lat, lon))],
                ret  |-> diagnostics(som, ph, predict_soil_metrics(lat, lon)[2])]
    /\ UNCHANGED <<session_state, map_data, rerun, toast, exception, prev>>

NextDiagnostics ==
    \E som \in DiagnosticSoms, ph \in DiagnosticPhs, p \in DiagnosticPlaces :
        ShowDiagnostics(som, ph, p.lat, p.lng)

SpecDiagnostics == Init /\ [][NextDiagnostics]_vars

\* ------------------------------------------------ vocabulary of the claims

\* the recorded Selection
Selection(s) == <<s.clicked_lat, s.clicked_lon, s.drawn_area_ha, s.selection_mode>>

\* the recorded SoilReading
SoilReading(s) == <<s.est_som, s.est_depth>>

InRegion(p) == contains(eaa_poly, p.lng, p.lat)

\* the drawings shape() parses
ValidPolygons ==
    {d \in Drawings : d.geometry.type \in {"Polygon", "MultiPolygon"} /\ ~shape_raises(d.geometry)}

CentroidInRegion(d) == contains(eaa_poly, centroid(d.geometry).x, centroid(d.geometry).y)

AnyClick == \E p \in ClickPoints : ClickMap(p)

AnyDraw == \E d \in Drawings : DrawShape(d)

AnyForward2 ==
    \/ \E c \in LabChoices : Forward2(TRUE, ph_options[c[1]], som_options[c[2]])
    \/ Forward2(FALSE, <<>>, <<>>)

AnyForward4 == \E plan \in PlanInputs(session_state) : Forward4(plan[1], plan[2])

\* ------------------------------------------------ C1

\* C1: whenever a Selection is recorded, its representative point - a clicked
\* point in point mode, the centroid of a drawing on the map in polygon mode -
\* lies inside the Region.
C1_SelectionInsideRegion ==
    LET s == session_state
    IN  s.clicked_lat # None =>
            /\ s.clicked_lon # None
            /\ contains(eaa_poly, s.clicked_lon[1], s.clicked_lat[1])
            /\ s.selection_mode = "point" =>
                   LatLng(s.clicked_lat[1], s.clicked_lon[1]) \in ClickPoints
            /\ s.selection_mode = "polygon" =>
                   \E i \in 1..Len(map_data.all_drawings) :
                       LET d == map_data.all_drawings[i]
                       IN  /\ d \in ValidPolygons
                           /\ centroid(d.geometry) =
                                  [x |-> s.clicked_lon[1], y |-> s.clicked_lat[1]]

\* a polygon Selection recorded while the map also carries an out-of-Region
\* click
C1_Witness ==
    /\ session_state.selection_mode = "polygon"
    /\ session_state.clicked_lat # None
    /\ map_data.last_clicked # None
    /\ ~InRegion(map_data.last_clicked[1])

\* ------------------------------------------------ C2

ForwardEdges == {<<2, 3>>, <<3, 4>>, <<4, 5>>}

BackEdges == {<<2, 1>>, <<3, 2>>, <<4, 3>>}

StageEdge == <<session_state.step, session_state'.step>>

\* C2 as claimed: the stage moves only along S1->S2, the forward and back
\* edges and S5->S1; a click or draw changes the stage or the Selection only
\* in S1; S5 is left only through restart.
C2_Original ==
    [][ /\ session_state'.step # session_state.step =>
               StageEdge \in {<<1, 2>>} \cup ForwardEdges \cup BackEdges \cup {<<5, 1>>}
        /\ ( /\ AnyClick \/ AnyDraw
             /\ \/ session_state'.step # session_state.step
                \/ Selection(session_state') # Selection(session_state) )
               => session_state.step = 1
        /\ (session_state.step = 5 /\ session_state'.step # 5) => Restart
      ]_vars

\* C2 as amended: an accepted selection leads to S2 from every stage; the
\* other edges are those of the buttons, which leave the Selection alone.
C2_StageEdges ==
    [][ /\ session_state'.step # session_state.step =>
               \/ session_state'.step = 2 /\ (AnyClick \/ AnyDraw)
               \/ StageEdge \in ForwardEdges /\ (AnyForward2 \/ Forward3 \/ AnyForward4)
               \/ StageEdge \in BackEdges /\ Back
               \/ StageEdge = <<5, 1>> /\ Restart
        /\ Selection(session_state') # Selection(session_state) =>
               \/ session_state'.step = 2 /\ (AnyClick \/ AnyDraw \/ Rerun)
               \/ Restart
        /\ (session_state.step = 5 /\ session_state'.step # 5) =>
               \/ Restart
               \/ session_state'.step = 2 /\ (AnyClick \/ AnyDraw)
      ]_vars

\* back in S2 with the crop committed at S4: S5 was left by a new selection
C2_Witness ==
    /\ session_state.step = 2
    /\ session_state.selected_crop # "Sugarcane"

\* ------------------------------------------------ C3

C4_AcceptedInS1 ==
    [][ /\ \A p \in ClickPoints :
               (session_state.step = 1 /\ InRegion(p) /\ ClickMap(p)) =>
                   /\ Selection(session_state') = <<Some(p.lat), Some(p.lng), None, "point">>
                   /\ SoilReading(session_state') =
                          << Some(predict_soil_metrics(p.lat, p.lng)[1]),
                             Some(predict_soil_metrics(p.lat, p.lng)[2]) >>
                   /\ session_state'.step = 2
        /\ \A d \in ValidPolygons :
               (session_state.step = 1 /\ CentroidInRegion(d) /\ DrawShape(d)) =>
                   LET c == centroid(d.geometry)
                   IN  /\ session_state'.clicked_lat = Some(c.y)
                       /\ session_state'.clicked_lon = Some(c.x)
                       /\ session_state'.selection_mode = "polygon"
                       /\ SoilReading(session_state') =
                              << Some(predict_soil_metrics(c.y, c.x)[1]),
                                 Some(predict_soil_metrics(c.y, c.x)[2]) >>
                       /\ session_state'.step = 2
      ]_vars

\* ------------------------------------------------ C5

\* C5: restart sets every key but map_key to its default and adds 1 to
\* map_key; nothing else changes map_key; the pass that follows the restart
\* mounts a fresh map and leaves the session at its defaults, in S1, with no
\* further rerun.
C5_RestartResets ==
    [][ /\ Restart =>
               session_state' = [defaults EXCEPT !.map_key = session_state.map_key + 1]
        /\ session_state'.map_key # session_state.map_key => Restart
        /\ ( /\ Rerun
             /\ session_state.map_key > 0
             /\ session_state = [defaults EXCEPT !.map_key = session_state.map_key] )
               => /\ session_state' = session_state
                  /\ ~rerun'
                  /\ map_data' = EmptyMapData(session_state.map_key)
      ]_vars

\* at rest in S1 after a restart, with the defaults and an empty map
C5_Witness ==
    /\ ~rerun
    /\ session_state = [defaults EXCEPT !.map_key = 1]
    /\ map_data = EmptyMapData(1)

\* ------------------------------------------------ C6

\* C6 as claimed: a drawing that shape() rejects, or of an unrecognised type,
\* changes nothing of st.session_state and raises no exception.
C6_BadDrawingNoOp ==
    [][ \A d \in Drawings \ ValidPolygons :
            DrawShape(d) => (session_state' = session_state /\ exception' = "none")
      ]_vars

\* ------------------------------------------------ C7

\* C7 as claimed: at S4 the farm size offered is in [1, 500000], and the
\* committed farm size always is.
C7_FarmSizeInRange ==
    /\ session_state.step = 4 => default_size(session_state) \in 1..500000
    /\ session_state.saved_farm_size \in 1..500000

\* ------------------------------------------------ C8

\* the SoilReading of s is the estimator's output for the Selection of s, and
\* absent when s has no Selection
ReadingOfSelection(s) ==
    IF s.clicked_lat = None
    THEN s.clicked_lon = None /\ SoilReading(s) = <<None, None>>
    ELSE SoilReading(s) =
             << Some(predict_soil_metrics(s.clicked_lat[1], s.clicked_lon[1])[1]),
                Some(predict_soil_metrics(s.clicked_lat[1], s.clicked_lon[1])[2]) >>

\* C8: the SoilReading is the estimator's output for the recorded Selection
\* (and absent when no Selection is recorded), and it changes only in a step
\* that writes the Selection or in a restart - never in a forward or back
\* step, nor on a rejected input.
C8_SoilReadingOfSelection ==
    /\ ReadingOfSelection(session_state)
    /\ [][ /\ ReadingOfSelection(session_state')
           /\ SoilReading(session_state') # SoilReading(session_state) =>
                  \/ Restart
                  \/ /\ AnyClick \/ AnyDraw \/ Rerun
                     /\ Selection(session_state') # Selection(session_state)
           /\ (Back \/ AnyForward2 \/ Forward3 \/ AnyForward4) =>
                  /\ SoilReading(session_state') = SoilReading(session_state)
                  /\ Selection(session_state') = Selection(session_state)
         ]_vars

\* a second Selection, made after the first had gone as far as S5
C8_Witness ==
    /\ session_state.step = 3
    /\ session_state.selected_crop = "Lettuce"
    /\ session_state.selection_mode = "polygon"
    /\ session_state.est_som # None

\* ------------------------------------------------ C9

\* C9: the S2 forward step moves to S3 with display_ph 5.0 / 6.0 / 7.0 / 8.0
\* and display_som 30.0 / 55.0 / 77.5 for the options chosen with lab data,
\* and with display_ph 6.5 and display_som = est_som without; display_ph is
\* always one of 5.0, 6.0, 6.5, 7.0, 8.0.
C9_ResolveDisplay ==
    /\ session_state.display_ph \in {50, 60, 65, 70, 80}
    /\ [][ /\ session_state'.display_ph \in {50, 60, 65, 70, 80}
           /\ \A c \in LabChoices :
                  Forward2(TRUE, ph_options[c[1]], som_options[c[2]]) =>
                      /\ session_state'.step = 3
                      /\ session_state'.display_ph = <<50, 60, 70, 80>>[c[1]]
                      /\ session_state'.display_som = <<300, 550, 775>>[c[2]]
           /\ Forward2(FALSE, <<>>, <<>>) =>
                  /\ session_state'.step = 3
                  /\ session_state'.display_ph = 65
                  /\ session_state.est_som # None
                  /\ session_state'.display_som = session_state.est_som[1]
         ]_vars

\* just after the S2 forward step with "Alkaline" and "Moderate"
C9_Witness ==
    /\ session_state.step = 3
    /\ rerun
    /\ session_state.display_ph = 80
    /\ session_state.display_som = 550

\* ------------------------------------------------ C10

\* the call before and the last call are both of the carbon model
TwoCarbonCalls ==
    /\ call.fn = "calculate_carbon_impact"
    /\ prev.fn = "calculate_carbon_impact"

\* C10: the result is base * size * min(depth/30, 1) * min(som/60, 1); for the
\* same base it does not decrease when size, depth and som do not; it does not
\* change with depth from 30 on, nor with som from 60 on; depth 29 gives less
\* than depth 30.
C10_CarbonImpact ==
    /\ call.fn = "calculate_carbon_impact" =>
           LET a == call.args
           IN  call.ret = a.base * a.size
                              * (IF a.depth < 30 THEN a.depth ELSE 30)
                              * (IF a.som < 600 THEN a.som ELSE 600)
    /\ TwoCarbonCalls =>
           LET a == prev.args
               b == call.args
           IN  /\ ( /\ a.base = b.base /\ a.size <= b.size
                    /\ a.depth <= b.depth /\ a.som <= b.som ) => prev.ret <= call.ret
               /\ ( /\ a.base = b.base /\ a.size = b.size /\ a.som = b.som
                    /\ a.depth >= 30 /\ b.depth >= 30 ) => prev.ret = call.ret
               /\ ( /\ a.base = b.base /\ a.size = b.size /\ a.depth = b.depth
                    /\ a.som >= 600 /\ b.som >= 600 ) => prev.ret = call.ret
               /\ ( /\ a.base = b.base /\ a.size = b.size /\ a.som = b.som
                    /\ a.base > 0 /\ a.size > 0
                    /\ a.depth = 29 /\ b.depth = 30 ) => prev.ret < call.ret

\* depth 30 then depth 150, all else equal and positive: the same credits
C10_Witness ==
    /\ TwoCarbonCalls
    /\ prev.args = [call.args EXCEPT !.depth = 30]
    /\ call.args.depth = 150
    /\ call.args.base > 0 /\ call.args.size > 0
    /\ prev.ret = call.ret
    /\ call.ret > 0

\* ------------------------------------------------ C11

\* no key of the map occurs in the label
Unrecognized(map, label) == \A i \in 1..Len(map) : ~IsSubstr(map[i].k, label)

\* C11: go_to_step3 with lab data and a pH label that holds no key of ph_map
\* leaves display_ph = 6.5, with an organic-matter label that holds no key of
\* som_map it leaves display_som = 55.0, and in both cases the step is 3.
C11_UnrecognizedDefaults ==
    call.fn = "go_to_step3" =>
        /\ Unrecognized(ph_map, call.args.ph_choice) =>
               call.ret.display_ph = 65 /\ call.ret.step = 3
        /\ Unrecognized(som_map, call.args.som_choice) =>
               call.ret.display_som = 550 /\ call.ret.step = 3

\* ------------------------------------------------ C12

\* C12: the results page raises nothing for a crop name without a row in the
\* crop table: the coefficient lookup and the recommendation lookup both give
\* a default.
C12_UnknownCropFallsBack ==
    (call.fn = "results" /\ call.args.selected_crop \notin crop_names) =>
        /\ call.ret.exception = "none"
        /\ call.ret.protocols = <<"Manage Water Table">>

\* ------------------------------------------------ C13

\* C13: for every coordinate pair the seed is in [0, 2^31), also when
\* lat + lon is negative; the organic matter is in [25.0, 85.0]; the depth is
\* in [15, 30) when the category drawn is shallow, in [30, 101) when adequate,
\* in [101, 151) when deep, so in 15..150.
C13_EstimatorRanges ==
    call.fn = "predict_soil_metrics" =>
        LET r == call.ret
        IN  /\ r.seed >= 0 /\ r.seed <= 2147483647
            /\ r.som >= 250 /\ r.som <= 850
            /\ r.depth_choice \in {"shallow", "adequate", "deep"}
            /\ r.depth_choice = "shallow"  => (r.depth >= 15 /\ r.depth < 30)
            /\ r.depth_choice = "adequate" => (r.depth >= 30 /\ r.depth < 101)
            /\ r.depth_choice = "deep"     => (r.depth >= 101 /\ r.depth < 151)
            /\ r.depth >= 15 /\ r.depth <= 150

\* a call with lat + lon negative after one with lat + lon positive, the two
\* of different depth categories
C13_Witness ==
    /\ call.fn = "predict_soil_metrics"
    /\ prev.fn = "predict_soil_metrics"
    /\ call.args.lat + call.args.lon < 0
    /\ prev.args.lat + prev.args.lon > 0
    /\ call.ret.seed > 0
    /\ call.ret.depth_choice = "deep"
    /\ prev.ret.depth_choice = "shallow"

\* ------------------------------------------------ C14

\* C14: a back step (S2->S1, S3->S2, S4->S3) and the S3 forward step change
\* the step and nothing else of the session; saved_farm_size and
\* selected_crop take what was entered at S4 only in the S4 forward step
\* (a restart puts the defaults back).
C14_OnlyStageChanges ==
    [][ /\ Back => session_state' = [session_state EXCEPT !.step = session_state.step - 1]
        /\ Forward3 => session_state' = [session_state EXCEPT !.step = 4]
        /\ ( \/ session_state'.saved_farm_size # session_state.saved_farm_size
             \/ session_state'.selected_crop # session_state.selected_crop )
               => \/ AnyForward4
                  \/ Restart /\ session_state'.saved_farm_size = defaults.saved_farm_size
                             /\ session_state'.selected_crop = defaults.selected_crop
      ]_vars

\* just after the back step S2->S1 of a session with a plan committed
\* earlier: the Selection and the plan are still there
C14_Witness ==
    /\ session_state.step = 1
    /\ rerun
    /\ session_state.clicked_lat # None
    /\ session_state.saved_farm_size = 1
    /\ session_state.selected_crop = "Sunn Hemp"

\* ------------------------------------------------ C15

\* C15: on the results page of a crop of the table, the cars figure is
\* adj_credits / size / 4.6 when the farm size is above 0 and 0 when it is 0,
\* and no ZeroDivisionError is raised.
C15_CarsGuarded ==
    call.fn = "results" =>
        /\ call.ret.exception # "ZeroDivisionError"
        /\ call.args.selected_crop \in crop_names =>
               /\ call.ret.exception = "none"
               /\ call.args.saved_farm_size > 0 =>
                      /\ call.ret.cars.num = call.ret.adj_credits
                      /\ call.ret.cars.den = call.args.saved_farm_size * 46
               /\ call.args.saved_farm_size = 0 =>
                      /\ call.ret.cars.num = 0
                      /\ call.ret.cars.den # 0

\* the results of a farm of size 0 after those of a farm of size 1, same crop:
\* 0 cars after a positive number of them
C15_Witness ==
    /\ call.fn = "results"
    /\ prev.fn = "results"
    /\ call.args.selected_crop \in crop_names
    /\ prev.args = [call.args EXCEPT !.saved_farm_size = 1]
    /\ call.args.saved_farm_size = 0
    /\ call.ret.exception = "none"
    /\ call.ret.cars.num = 0
    /\ prev.ret.cars.num > 0
    /\ prev.ret.cars.den = 46

\* ------------------------------------------------ C16

\* the band of the S3 page that goes with a depth category of the estimator
BandOf(choice) ==
    IF choice = "shallow" THEN "Very Low Depth"
    ELSE IF choice = "adequate" THEN "Adequate Depth"
    ELSE "Very High Depth"

\* C16: the diagnostics give every organic matter, pH and depth one label:
\* organic matter below 40 Low, 40..70 Moderate, above 70 Good; pH below 5.5
\* Extremely Low, [5.5, 6.5) Low pH, [6.5, 7.5] Good pH, (7.5, 8.5] High pH,
\* above 8.5 Extremely High; and the depth band of a depth the estimator draws
\* (15..150) is that of the category it was drawn in.
C16_Classification ==
    /\ call.fn = "diagnostics" =>
           LET a == call.args
               r == call.ret
           IN  /\ (a.som < 400) <=> (r.som_label = "Low Organic Matter")
               /\ (a.som >= 400 /\ a.som <= 700) <=> (r.som_label = "Moderate Organic Matter")
               /\ (a.som > 700) <=> (r.som_label = "Good Organic Matter")
               /\ (a.ph < 55) <=> (r.ph_label = "Extremely Low")
               /\ (a.ph >= 55 /\ a.ph < 65) <=> (r.ph_label = "Low pH")
               /\ (a.ph >= 65 /\ a.ph <= 75) <=> (r.ph_label = "Good pH")
               /\ (a.ph > 75 /\ a.ph <= 85) <=> (r.ph_label = "High pH")
               /\ (a.ph > 85) <=> (r.ph_label = "Extremely High")
               /\ r.depth_label = BandOf(a.depth_choice)
    /\ \A choice \in {"shallow", "adequate", "deep"} :
           \A depth \in depth_bounds(choice)[1] .. (depth_bounds(choice)[2] - 1) :
               /\ depth \in 15..150
               /\ depth_label(depth) = BandOf(choice)
    /\ \A depth \in 15..150 :
           \E choice \in {"shallow", "adequate", "deep"} :
               depth \in depth_bounds(choice)[1] .. (depth_bounds(choice)[2] - 1)

\* the diagnostics of organic matter 70.0, pH 7.5 and a deep soil: the upper
\* ends of the middle bands, and the highest depth band
C16_Witness ==
    /\ call.fn = "diagnostics"
    /\ call.args.som = 700 /\ call.ret.som_label = "Moderate Organic Matter"
    /\ call.args.ph = 75 /\ call.ret.ph_label = "Good pH"
    /\ call.args.depth_choice = "deep" /\ call.ret.depth_label = "Very High Depth"

\* ------------------------------------------------ C17

\* the session records drawing d as its Selection, at S2
RecordsPolygon(s, d) ==
    /\ s.selection_mode = "polygon"
    /\ s.drawn_area_ha = Some(round1(d.area))
    /\ s.clicked_lat = Some(centroid(d.geometry).y)
    /\ s.clicked_lon = Some(centroid(d.geometry).x)
    /\ s.step = 2

\* a rerun is pending and the pass it starts ends as this one did: with the
\* same session and a rerun pending
Livelocked ==
    /\ rerun
    /\ script(session_state, Mounted(map_data), NoButton)[2].rerun
    /\ script(session_state, Mounted(map_data), NoButton)[2].s = session_state

\* C17: the pass that accepts a drawn polygon with centroid inside the Region
\* leaves the polygon recorded as the Selection at S2, also when the map's
\* value holds an earlier click inside the Region; and the reruns that follow
\* come to an end.
C17_PolygonSettles ==
    [][ /\ \A d \in ValidPolygons :
               ( /\ DrawShape(d)
                 /\ CentroidInRegion(d)
                 /\ session_state.clicked_lat # Some(centroid(d.geometry).y) )
                   => RecordsPolygon(session_state', d)
        /\ ~Livelocked'
      ]_vars

\* ------------------------------------------------ C18

\* the values of som_map
Midpoints == {som_map[i].v : i \in 1..Len(som_map)}

\* C18: from S3 on, display_som is 30.0, 55.0 or 77.5, or it is the organic
\* matter estimated at the point recorded as the Selection.
C18_DisplaySomCurrent ==
    session_state.step >= 3 =>
        \/ session_state.display_som \in Midpoints
        \/ /\ session_state.clicked_lat # None
           /\ session_state.est_som # None
           /\ session_state.display_som = session_state.est_som[1]
           /\ session_state.display_som =
                  predict_soil_metrics(session_state.clicked_lat[1],
                                       session_state.clicked_lon[1])[1]

\* at S3 with the estimate of a point selected after an earlier assessment
\* had reached S5
C18_Witness ==
    /\ session_state.step = 3
    /\ session_state.selected_crop = "Sunn Hemp"
    /\ session_state.selection_mode = "point"
    /\ session_state.display_som \notin Midpoints
    /\ session_state.display_som = session_state.est_som[1]

\* ------------------------------------------------ C19

\* C19: from S2 on, clicked_lat, clicked_lon, est_som and est_depth are all
\* present, so that no page raises on a missing value; and selection_mode is
\* "polygon" exactly when drawn_area_ha is present.
C19_SelectionPresent ==
    /\ session_state.step >= 2 =>
           /\ session_state.clicked_lat # None
           /\ session_state.clicked_lon # None
           /\ session_state.est_som # None
           /\ session_state.est_depth # None
           /\ ~missing_value(session_state)
    /\ exception # "TypeError"
    /\ (session_state.selection_mode = "polygon") <=> (session_state.drawn_area_ha # None)

\* at S5 with a point Selection made after a polygon Selection: the area of
\* the polygon is gone with the mode
C19_Witness ==
    /\ session_state.step = 5
    /\ session_state.selection_mode = "point"
    /\ session_state.drawn_area_ha = None
    /\ session_state.clicked_lat # None
    /\ session_state.est_depth # None
    /\ map_data.all_drawings # <<>>
    /\ map_data.all_drawings[1] = FieldSmall

\* ------------------------------------------------ C20

\* the crop has exactly one row in the table and a non-empty list of protocols
OneRowAndProtocols(crop) ==
    /\ Len(crop_rows(crop)) = 1
    /\ Len(get_crop_recommendations(crop)) >= 1

\* C20: selected_crop is always a crop of the table, of which there are 8;
\* the default crop and the options of both S4 selectboxes are crops of the
\* table; for the selected crop, and for every option, the table has exactly
\* one row and get_crop_recommendations gives a non-empty list.
C20_SelectedCropInTable ==
    /\ session_state.selected_crop \in crop_names
    /\ OneRowAndProtocols(session_state.selected_crop)
    /\ exception # "IndexError"
    /\ Cardinality(crop_names) = 8
    /\ defaults.selected_crop \in crop_names
    /\ shortlist \subseteq crop_names
    /\ \A plan \in PlanInputs(session_state) : plan[2] \in crop_names
    /\ \A crop \in crop_names : OneRowAndProtocols(crop)

\* the results page of Sunn Hemp, a crop of the shortlist: its one row and
\* the four protocols of the cover crops
C20_Witness ==
    /\ session_state.step = 5
    /\ ~rerun
    /\ exception = "none"
    /\ session_state.selected_crop = "Sunn Hemp"
    /\ session_state.selected_crop \in shortlist
    /\ crop_rows(session_state.selected_crop) = <<[Crop |-> "Sunn Hemp", Credits |-> 827]>>
    /\ Len(get_crop_recommendations(session_state.selected_crop)) = 4

====
